---- MODULE Spec2Model ----
(***************************************************************************)
(* Video Speed Controller userscript (video-speed-controller.user.js,      *)
(* version 1.1.1; the 1.0 variant differs only where noted).               *)
(*                                                                         *)
(* Numbers are JavaScript numbers restricted to multiples of 0.01: a       *)
(* finite number is the record Num(n) with n its value in hundredths       *)
(* (Num(150) is 1.5), and NaN, +Infinity, -Infinity are records of their   *)
(* own kind.  Strings are sequences of one-character strings, the words    *)
(* "Infinity", "NaN" and "custom" being one token each.  Times are in      *)
(* milliseconds.                                                           *)
(***************************************************************************)
EXTENDS Integers, Sequences, FiniteSets, TLC

\* ---------------------------------------------------------------- bounds
NumVideos == 2      \* video elements the page may hold
MaxHostOps == 3     \* operations the host page performs in one run
MaxBatch == 2       \* mutation records delivered in one observer callback
MaxUserOps == 2     \* pointer and input events of the user in one run
TickMs == 1000      \* longest step of the clock between two events

Videos == 1..NumVideos

\* ------------------------------------------------------- program constants
HideDelay == 2000
FlashDelay == 1000
CheckInterval == 1000

\* customSpeedInput.min = "0.1" and customSpeedInput.max = "16", in hundredths
InputMin == 10
InputMax == 1600

\* speeds = [0.1, 0.5, 1, 1.5, 2, 2.5, 3, 4], in hundredths
speeds == <<10, 50, 100, 150, 200, 250, 300, 400>>

\* ---------------------------------------------------------------- numbers
Num(n) == [kind |-> "num", val |-> n]
NaN == [kind |-> "nan", val |-> 0]
PosInf == [kind |-> "+inf", val |-> 0]
NegInf == [kind |-> "-inf", val |-> 0]

\* isNaN(rate)
isNaN(r) == r.kind = "nan"

\* rate <= 0 (false for NaN)
LessEqZero(r) == (r.kind = "num" /\ r.val <= 0) \/ r.kind = "-inf"

\* rate > 0 (false for NaN)
GreaterZero(r) == (r.kind = "num" /\ r.val > 0) \/ r.kind = "+inf"

\* a === b on numbers (NaN equals nothing)
StrictEquals(a, b) == a.kind # "nan" /\ b.kind # "nan" /\ a = b

\* ---------------------------------------------------------------- strings
DigitChars == <<"0", "1", "2", "3", "4", "5", "6", "7", "8", "9">>

IsDigit(c) == \E i \in 1..10 : DigitChars[i] = c

DigitValue(c) == (CHOOSE i \in 1..10 : DigitChars[i] = c) - 1

RECURSIVE IntDigits(_)
IntDigits(n) ==
    IF n < 10 THEN <<DigitChars[n + 1]>>
    ELSE IntDigits(n \div 10) \o <<DigitChars[(n % 10) + 1]>>

\* Number.prototype.toString() on the numbers of the model
toString(r) ==
    CASE r.kind = "nan" -> <<"NaN">>
      [] r.kind = "+inf" -> <<"Infinity">>
      [] r.kind = "-inf" -> <<"-", "Infinity">>
      [] OTHER ->
            LET a == IF r.val < 0 THEN 0 - r.val ELSE r.val
                sign == IF r.val < 0 THEN <<"-">> ELSE << >>
                fp == a % 100
                frac == IF fp = 0 THEN << >>
                        ELSE IF fp % 10 = 0 THEN <<".", DigitChars[(fp \div 10) + 1]>>
                        ELSE <<".", DigitChars[(fp \div 10) + 1], DigitChars[(fp % 10) + 1]>>
            IN sign \o IntDigits(a \div 100) \o frac

\* the longest prefix of s made of digits
RECURSIVE DigitPrefix(_)
DigitPrefix(s) ==
    IF s # << >> /\ IsDigit(Head(s)) THEN <<Head(s)>> \o DigitPrefix(Tail(s))
    ELSE << >>

RECURSIVE DigitsValue(_, _)
DigitsValue(s, acc) ==
    IF s = << >> THEN acc ELSE DigitsValue(Tail(s), acc * 10 + DigitValue(Head(s)))

\* parseFloat(s): optional sign, then Infinity or digits[.digits]; NaN when no
\* number starts the string; what follows the number is ignored.  Digits
\* after the second decimal are dropped (no input of the model has any).
parseFloat(s) ==
    LET neg == s # << >> /\ Head(s) = "-"
        body == IF s # << >> /\ Head(s) \in {"-", "+"} THEN Tail(s) ELSE s
        ip == DigitPrefix(body)
        rest == SubSeq(body, Len(ip) + 1, Len(body))
        fpAll == IF rest # << >> /\ Head(rest) = "." THEN DigitPrefix(Tail(rest)) ELSE << >>
        fp == SubSeq(fpAll \o <<"0", "0">>, 1, 2)
        mag == DigitsValue(ip, 0) * 100 + DigitsValue(fp, 0)
    IN  IF body # << >> /\ Head(body) = "Infinity" THEN (IF neg THEN NegInf ELSE PosInf)
        ELSE IF ip = << >> /\ fpAll = << >> THEN NaN
        ELSE Num(IF neg THEN 0 - mag ELSE mag)

\* dataset.preferredRate of a video that never had one
Undefined == <<"undefined">>

\* a string is truthy unless it is missing or empty
Truthy(s) == s # Undefined /\ s # << >>


\* ------------------------------------------------------------------ state
VARIABLES
    hostname,       \* window.location.hostname, as its dot-separated labels
    loaded,         \* the window load event has fired (observer installed)
    divInDoc,       \* the page's container element is in the document body
    parent,         \* parent[v]: "none", "body" or "div" (the container)
    src,            \* src[v]: the video's src, as tokens
    enhanced,       \* enhanced[v]: the video carries the enhanced class
    playbackRate,   \* playbackRate[v]: the live rate
    paused,         \* paused[v]
    preferredRate,  \* preferredRate[v]: dataset.preferredRate, or Undefined
    activeVideos,   \* the Map activeVideos: a function on the registered videos
    panels,         \* panels[v]: controller elements of v in the document
    attached,       \* attached[v]: controllers ever built for v; each built
                    \* one play listener and one setInterval that stay for good
    intervals,      \* intervals[v]: ms to the next firing of each setInterval
    flashTimers,    \* pending one-second timeouts of the creation flash
    mouseX, mouseY, \* last known pointer coordinates
    pending,        \* mutation records queued for the observer callback
    threw,          \* a handler ended in an uncaught TypeError
    hostOps,        \* operations the host page has made
    userOps,        \* pointer and input events the user has made
    quiet,          \* ms since the last pointer event (capped at HideDelay)
    hovered,        \* the registered videos the last pointer event was a
                    \* mousemove inside of
    sinceMove,      \* sinceMove[v]: ms since the last mousemove inside the
                    \* bounds of the registered video v (capped at HideDelay,
                    \* which also stands for never)
    lastEvent       \* the handler that ran last, with its argument

domVars == <<hostname, loaded, divInDoc, parent, src, pending, hostOps>>
engineVars == <<enhanced, activeVideos, panels, attached, intervals, flashTimers, threw>>
rateVars == <<playbackRate, paused, preferredRate>>
pointerVars == <<mouseX, mouseY, userOps, quiet, hovered, sinceMove>>
vars == <<domVars, engineVars, rateVars, pointerVars, lastEvent>>

\* ---------------------------------------------------------- site rules
BlobSrc == <<"blob:", "abc">>
HttpSrc == <<"https:", "//cdn/x.mp4">>
NoSrc == << >>

\* siteRules: the domains that have a rule
siteRuleDomains == {<<"primevideo", "com">>}

\* siteRules['primevideo.com'].shouldAddController: (video.src || '').startsWith('blob:')
primevideoShouldAddController(s) == s # << >> /\ Head(s) = "blob:"

\* the null getCurrentSite() returns when no rule matches
Null == <<"null">>

\* getCurrentSite() without the base-domain regex: the whole hostname is looked up
getCurrentSite_WholeHostname(h) == IF h \in siteRuleDomains THEN h ELSE Null

\* getCurrentSite(): /([^.]+\.[^.]+)$/ matches when the last two labels are
\* both non-empty; otherwise the whole hostname is the base domain.
getCurrentSite(h) ==
    LET n == Len(h)
        matches == n >= 2 /\ h[n - 1] # "" /\ h[n] # ""
        baseDomain == IF matches THEN <<h[n - 1], h[n]>> ELSE h
    IN IF baseDomain \in siteRuleDomains THEN baseDomain ELSE Null

currentSite == getCurrentSite(hostname)

\* shouldAddController(video), from the video's src
shouldAddController(s) ==
    IF currentSite # Null THEN primevideoShouldAddController(s) ELSE TRUE

\* ------------------------------------------------------------- geometry
\* getBoundingClientRect(): a video in the document has its own rectangle, a
\* video outside the document has the all-zero rectangle.
VideoRect(v) == [left |-> 2 * v - 1, right |-> 2 * v, top |-> 1, bottom |-> 2]

InDoc(v) == parent[v] = "body" \/ (parent[v] = "div" /\ divInDoc)

getBoundingClientRect(v) ==
    IF InDoc(v) THEN VideoRect(v) ELSE [left |-> 0, right |-> 0, top |-> 0, bottom |-> 0]

isMouseOver(v, x, y) ==
    LET rect == getBoundingClientRect(v)
    IN x >= rect.left /\ x <= rect.right /\ y >= rect.top /\ y <= rect.bottom

\* pointer positions of the model: the corner (0,0), one point in each
\* video's rectangle, one point outside every rectangle
Points == {<<0, 0>>} \cup {<<2 * v, 1>> : v \in Videos} \cup {<<0, 3>>}

\* ------------------------------------------------------ the registration
\* VideoControllerData.  visible: the controller carries the visible class.
\* hideTimers: ms left of each pending timeout made for this registration;
\* hideTimer: the index in hideTimers of the timeout data.hideTimer names,
\* 0 when it is null or names a timeout that fired.
CustomIndex == Len(speeds) + 1

\* the value of option i of the dropdown
optionValue(i) == IF i = CustomIndex THEN <<"custom">> ELSE toString(Num(speeds[i]))

DefaultIndex == CHOOSE i \in 1..Len(speeds) : speeds[i] = 100

NewData ==
    [visible |-> FALSE, hideTimers |-> << >>, hideTimer |-> 0, isSticky |-> FALSE,
     selectedIndex |-> DefaultIndex, customValue |-> <<"1", ".", "0">>]

has(av, v) == v \in DOMAIN av

MapSet(av, v, d) == [w \in DOMAIN av \cup {v} |-> IF w = v THEN d ELSE av[w]]

MapDelete(av, v) == [w \in DOMAIN av \ {v} |-> av[w]]


\* --------------------------------------------------- the engine's functions
\* The engine's functions read and write the record st of the state they
\* touch: enhanced, activeVideos, panels, attached, intervals, flashTimers,
\* playbackRate, preferredRate.
EngineState ==
    [enhanced |-> enhanced, activeVideos |-> activeVideos, panels |-> panels,
     attached |-> attached, intervals |-> intervals, flashTimers |-> flashTimers,
     playbackRate |-> playbackRate, preferredRate |-> preferredRate]

\* updateSpeedSelector(selector, rate): the first option whose parsed value is
\* the rate, else the custom option; returns the new selectedIndex
RECURSIVE FirstOption(_, _)
FirstOption(i, rate) ==
    IF i > CustomIndex THEN 0
    ELSE IF StrictEquals(parseFloat(optionValue(i)), rate) THEN i
    ELSE FirstOption(i + 1, rate)

\* updateSpeedSelector without the fallback to the custom option
updateSpeedSelector_NoCustom(selectedIndex, rate) ==
    LET i == FirstOption(1, rate)
    IN IF i # 0 THEN i ELSE selectedIndex

updateSpeedSelector(selectedIndex, rate) ==
    LET i == FirstOption(1, rate)
    IN IF i # 0 THEN i ELSE CustomIndex

\* the guard with < in place of <=: a rate of 0 passes
RejectsRate_ZeroPasses(rate) == isNaN(rate) \/ (~GreaterZero(rate) /\ rate # Num(0))

\* the guard without the test rate <= 0
RejectsRate_NaNOnly(rate) == isNaN(rate)

\* the guard of applyPlaybackRate: the video is given, so !video is false
RejectsRate(rate) == isNaN(rate) \/ LessEqZero(rate)

\* applyPlaybackRate with the registration looked up before the rate is written:
\* an unregistered video keeps its rate
applyPlaybackRate_RegisteredOnly(st, video, rate) ==
    IF RejectsRate(rate) \/ ~has(st.activeVideos, video) THEN st
    ELSE [st EXCEPT
            !.playbackRate[video] = rate,
            !.preferredRate[video] = toString(rate),
            !.activeVideos[video].selectedIndex = updateSpeedSelector(@, rate),
            !.activeVideos[video].customValue = toString(rate)]

\* applyPlaybackRate with the rate written to every video of the page
applyPlaybackRate_EveryVideo(st, video, rate) ==
    IF RejectsRate(rate) THEN st
    ELSE
        LET st1 == [st EXCEPT !.playbackRate = [w \in DOMAIN @ |-> rate],
                              !.preferredRate[video] = toString(rate)]
        IN  IF ~has(st1.activeVideos, video) THEN st1
            ELSE [st1 EXCEPT
                    !.activeVideos[video].selectedIndex = updateSpeedSelector(@, rate),
                    !.activeVideos[video].customValue = toString(rate)]

\* applyPlaybackRate without the write to customSpeedInput.value
applyPlaybackRate_InputKept(st, video, rate) ==
    IF RejectsRate(rate) THEN st
    ELSE
        LET st1 == [st EXCEPT !.playbackRate[video] = rate,
                              !.preferredRate[video] = toString(rate)]
        IN  IF ~has(st1.activeVideos, video) THEN st1
            ELSE [st1 EXCEPT
                    !.activeVideos[video].selectedIndex = updateSpeedSelector(@, rate)]

\* applyPlaybackRate(video, rate)
applyPlaybackRate(st, video, rate) ==
    IF RejectsRate(rate) THEN st
    ELSE
        LET st1 == [st EXCEPT !.playbackRate[video] = rate,
                              !.preferredRate[video] = toString(rate)]
        IN  IF ~has(st1.activeVideos, video) THEN st1
            ELSE [st1 EXCEPT
                    !.activeVideos[video].selectedIndex = updateSpeedSelector(@, rate),
                    !.activeVideos[video].customValue = toString(rate)]

\* updateControllerVisibility with the hide on leaving left to the countdown
updateOneVisibility_NoPromptHide(data, over) ==
    IF over THEN
        [data EXCEPT !.visible = TRUE,
                     !.hideTimers = Append(IF data.hideTimer = 0 THEN @
                                           ELSE SubSeq(@, 1, data.hideTimer - 1)
                                                \o SubSeq(@, data.hideTimer + 1, Len(@)),
                                           HideDelay),
                     !.hideTimer = IF @ = 0 THEN Len(data.hideTimers) + 1
                                   ELSE Len(data.hideTimers)]
    ELSE data

\* updateControllerVisibility without clearTimeout(data.hideTimer)
updateOneVisibility_NoClear(data, over) ==
    IF over THEN
        [data EXCEPT !.visible = TRUE,
                     !.hideTimers = Append(@, HideDelay),
                     !.hideTimer = Len(data.hideTimers) + 1]
    ELSE IF data.visible /\ ~data.isSticky THEN [data EXCEPT !.visible = FALSE]
    ELSE data

\* updateControllerVisibility with clearTimeout but without the new setTimeout
updateOneVisibility_NoRestart(data, over) ==
    IF over THEN
        LET cleared == IF data.hideTimer = 0 THEN data.hideTimers
                       ELSE SubSeq(data.hideTimers, 1, data.hideTimer - 1)
                            \o SubSeq(data.hideTimers, data.hideTimer + 1, Len(data.hideTimers))
        IN [data EXCEPT !.visible = TRUE,
                        !.hideTimers = cleared,
                        !.hideTimer = 0]
    ELSE IF data.visible /\ ~data.isSticky THEN [data EXCEPT !.visible = FALSE]
    ELSE data

\* the body of updateControllerVisibility for one registration
updateOneVisibility(data, over) ==
    IF over THEN
        LET cleared == IF data.hideTimer = 0 THEN data.hideTimers
                       ELSE SubSeq(data.hideTimers, 1, data.hideTimer - 1)
                            \o SubSeq(data.hideTimers, data.hideTimer + 1, Len(data.hideTimers))
        IN [data EXCEPT !.visible = TRUE,
                        !.hideTimers = Append(cleared, HideDelay),
                        !.hideTimer = Len(cleared) + 1]
    ELSE IF data.visible /\ ~data.isSticky THEN [data EXCEPT !.visible = FALSE]
    ELSE data

\* updateControllerVisibility(), with the pointer at (x, y)
updateControllerVisibility(av, x, y) ==
    [v \in DOMAIN av |-> updateOneVisibility(av[v], isMouseOver(v, x, y))]

\* the forEach body with the rule's answer ignored: every video gets a controller
initOneVideo_RuleIgnored(st, video) ==
    LET st1 == [st EXCEPT
                  !.enhanced[video] = TRUE,
                  !.panels[video] = @ + 1,
                  !.attached[video] = @ + 1,
                  !.intervals[video] = Append(@, CheckInterval),
                  !.activeVideos = MapSet(@, video, NewData)]
        st2 == IF ~StrictEquals(st1.playbackRate[video], Num(100))
               THEN applyPlaybackRate(st1, video, st1.playbackRate[video])
               ELSE st1
    IN [st2 EXCEPT
          !.activeVideos[video].visible = TRUE,
          !.flashTimers = @ \cup {[video |-> video, gen |-> st1.attached[video],
                                   left |-> FlashDelay]}]

\* the forEach body without the adoption of the video's live rate
initOneVideo_NoAdoption(st, video) ==
    IF ~shouldAddController(src[video]) THEN [st EXCEPT !.enhanced[video] = TRUE]
    ELSE
        LET st1 == [st EXCEPT
                      !.enhanced[video] = TRUE,
                      !.panels[video] = @ + 1,
                      !.attached[video] = @ + 1,
                      !.intervals[video] = Append(@, CheckInterval),
                      !.activeVideos = MapSet(@, video, NewData)]
        IN [st1 EXCEPT
              !.activeVideos[video].visible = TRUE,
              !.flashTimers = @ \cup {[video |-> video, gen |-> st1.attached[video],
                                       left |-> FlashDelay]}]

\* the body of the forEach of initVideoSpeedControl for one video
initOneVideo(st, video) ==
    IF ~shouldAddController(src[video]) THEN [st EXCEPT !.enhanced[video] = TRUE]
    ELSE
        LET st1 == [st EXCEPT
                      !.enhanced[video] = TRUE,
                      !.panels[video] = @ + 1,
                      !.attached[video] = @ + 1,
                      !.intervals[video] = Append(@, CheckInterval),
                      !.activeVideos = MapSet(@, video, NewData)]
            st2 == IF ~StrictEquals(st1.playbackRate[video], Num(100))
                   THEN applyPlaybackRate(st1, video, st1.playbackRate[video])
                   ELSE st1
        IN [st2 EXCEPT
              !.activeVideos[video].visible = TRUE,
              !.flashTimers = @ \cup {[video |-> video, gen |-> st1.attached[video],
                                       left |-> FlashDelay]}]

\* the scan with the selector 'video': the enhanced marker is not looked at
RECURSIVE initVideos_AllVideos(_, _)
initVideos_AllVideos(st, v) ==
    IF v > NumVideos THEN st
    ELSE IF InDoc(v) THEN initVideos_AllVideos(initOneVideo(st, v), v + 1)
    ELSE initVideos_AllVideos(st, v + 1)

\* document.querySelectorAll('video:not(.enhanced)'), in document order
RECURSIVE initVideos(_, _)
initVideos(st, v) ==
    IF v > NumVideos THEN st
    ELSE IF InDoc(v) /\ ~st.enhanced[v] THEN initVideos(initOneVideo(st, v), v + 1)
    ELSE initVideos(st, v + 1)

\* initVideoSpeedControl()
initVideoSpeedControl(st) == initVideos(st, 1)

\* --------------------------------------------------------- mutation records
VideoNode(v) == [kind |-> "video", id |-> v]
DivNode == [kind |-> "div", id |-> 0]
TextNode == [kind |-> "text", id |-> 0]
BodyNode == [kind |-> "body", id |-> 0]

ChildList(target, added, removed) ==
    [type |-> "childList", target |-> target, addedNodes |-> added, removedNodes |-> removed]

SrcChange(target) ==
    [type |-> "attributes", target |-> target, addedNodes |-> << >>, removedNodes |-> << >>]

\* node.querySelector('video:not(.enhanced)') on the container element
divHasUnenhancedVideo(st) == \E v \in Videos : parent[v] = "div" /\ ~st.enhanced[v]

\* the loop without the querySelector branch: only added video nodes count
RECURSIVE addedNodeIsNew_DirectOnly(_, _, _)
addedNodeIsNew_DirectOnly(st, nodes, i) ==
    IF i > Len(nodes) THEN FALSE
    ELSE IF nodes[i].kind = "video" THEN TRUE
    ELSE addedNodeIsNew_DirectOnly(st, nodes, i + 1)

\* checkForNewVideos(mutation): the loop over addedNodes, from node i
RECURSIVE addedNodeIsNew(_, _, _)
addedNodeIsNew(st, nodes, i) ==
    IF i > Len(nodes) THEN FALSE
    ELSE IF nodes[i].kind = "video" THEN TRUE
    ELSE IF nodes[i].kind = "div" /\ divHasUnenhancedVideo(st) THEN TRUE
    ELSE addedNodeIsNew(st, nodes, i + 1)

checkForNewVideos(st, mutation) ==
    IF Len(mutation.addedNodes) = 0 THEN FALSE
    ELSE addedNodeIsNew(st, mutation.addedNodes, 1)

\* checkForSrcChanges with a teardown that also clears the video's rate-check
\* timers
checkForSrcChanges_ClearsTimers(st, mutation) ==
    IF currentSite = Null \/ mutation.type # "attributes" \/ mutation.target.kind # "video"
    THEN [st |-> st, result |-> FALSE]
    ELSE
        LET video == mutation.target.id
            shouldHave == shouldAddController(src[video])
            hasController == has(st.activeVideos, video)
        IN  IF ~st.enhanced[video] THEN [st |-> st, result |-> FALSE]
            ELSE IF shouldHave /\ ~hasController
            THEN [st |-> [st EXCEPT !.enhanced[video] = FALSE], result |-> TRUE]
            ELSE IF ~shouldHave /\ hasController
            THEN [st |-> [st EXCEPT !.panels[video] = @ - 1,
                                    !.intervals[video] = << >>,
                                    !.activeVideos = MapDelete(@, video)],
                  result |-> FALSE]
            ELSE [st |-> st, result |-> FALSE]

\* checkForSrcChanges(mutation): the state it leaves and the value it returns
checkForSrcChanges(st, mutation) ==
    IF currentSite = Null \/ mutation.type # "attributes" \/ mutation.target.kind # "video"
    THEN [st |-> st, result |-> FALSE]
    ELSE
        LET video == mutation.target.id
            shouldHave == shouldAddController(src[video])
            hasController == has(st.activeVideos, video)
        IN  IF ~st.enhanced[video] THEN [st |-> st, result |-> FALSE]
            ELSE IF shouldHave /\ ~hasController
            THEN [st |-> [st EXCEPT !.enhanced[video] = FALSE], result |-> TRUE]
            ELSE IF ~shouldHave /\ hasController
            THEN [st |-> [st EXCEPT !.panels[video] = @ - 1,
                                    !.activeVideos = MapDelete(@, video)],
                  result |-> FALSE]
            ELSE [st |-> st, result |-> FALSE]

\* one round of mutations.forEach in the observer callback:
\*   videoAdded = videoAdded || checkForNewVideos(mutation);
\*   videoAdded = videoAdded || checkForSrcChanges(mutation);
\* Neither check is called once videoAdded is true.
observeOne(acc, mutation) ==
    LET added1 == acc.videoAdded \/ checkForNewVideos(acc.st, mutation)
        r == checkForSrcChanges(acc.st, mutation)
    IN  IF added1 THEN [st |-> acc.st, videoAdded |-> TRUE]
        ELSE [st |-> r.st, videoAdded |-> r.result]

RECURSIVE observeAll(_, _, _)
observeAll(acc, mutations, i) ==
    IF i > Len(mutations) THEN acc
    ELSE observeAll(observeOne(acc, mutations[i]), mutations, i + 1)

\* the MutationObserver callback
observerCallback(st, mutations) ==
    LET acc == observeAll([st |-> st, videoAdded |-> FALSE], mutations, 1)
    IN [st |-> IF acc.videoAdded THEN initVideoSpeedControl(acc.st) ELSE acc.st,
        videoAdded |-> acc.videoAdded]


\* ---------------------------------------------------------------- initial
Hostnames ==
    {<<"www", "primevideo", "com">>, <<"example", "com">>}

\* the event record kept for the properties: the handler, its video (0 when
\* it has none), its rate argument, a flag (a scan ran; the key was Enter;
\* the play listener or the periodic check wrote the live rate; the hide
\* timeout hid the panel), and the
\* videos whose panel was visible when it started
Event(op, v, r, f) == [op |-> op, video |-> v, rate |-> r, flag |-> f, shown |-> {}]

PointerEvent(op, v) ==
    [op |-> op, video |-> v, rate |-> NaN, flag |-> FALSE,
     shown |-> {w \in DOMAIN activeVideos : activeVideos[w].visible}]

\* the script's state before the window load event, but for the pointer
\* coordinates: nothing is enhanced, registered or pending
InitScript ==
    /\ loaded = FALSE
    /\ divInDoc = FALSE
    /\ enhanced = [v \in Videos |-> FALSE]
    /\ paused = [v \in Videos |-> TRUE]
    /\ preferredRate = [v \in Videos |-> Undefined]
    /\ activeVideos = << >>
    /\ panels = [v \in Videos |-> 0]
    /\ attached = [v \in Videos |-> 0]
    /\ intervals = [v \in Videos |-> << >>]
    /\ flashTimers = {}
    /\ pending = << >>
    /\ threw = FALSE
    /\ hostOps = 0
    /\ userOps = 0
    /\ quiet = 0
    /\ hovered = {}
    /\ sinceMove = [v \in Videos |-> HideDelay]
    /\ lastEvent = [op |-> "init", video |-> 0, rate |-> NaN, flag |-> FALSE, shown |-> {}]

\* the script's state before the window load event when no mousemove came
\* before it: let mouseX = 0, mouseY = 0
InitEngine ==
    /\ mouseX = 0
    /\ mouseY = 0
    /\ InitScript

\* the page before the window load event, whatever its hostname
InitPage ==
    /\ parent \in [Videos -> {"none", "body"}]
    /\ src \in [Videos -> {BlobSrc, HttpSrc}]
    /\ playbackRate = [v \in Videos |-> Num(100)]
    /\ InitEngine

Init ==
    /\ hostname \in Hostnames
    /\ InitPage

\* the engine's state variables take the values of the record st
SetEngineState(st) ==
    /\ enhanced' = st.enhanced
    /\ activeVideos' = st.activeVideos
    /\ panels' = st.panels
    /\ attached' = st.attached
    /\ intervals' = st.intervals
    /\ flashTimers' = st.flashTimers
    /\ playbackRate' = st.playbackRate
    /\ preferredRate' = st.preferredRate

\* ------------------------------------------------------- the host page's DOM
\* A mutation of the observed subtree queues a record once the observer is
\* installed.
Queue(observed, record) ==
    pending' = IF loaded /\ observed THEN Append(pending, record) ELSE pending

HostStep ==
    /\ hostOps < MaxHostOps
    /\ Len(pending) < MaxBatch
    /\ hostOps' = hostOps + 1
    /\ UNCHANGED <<hostname, loaded, engineVars, rateVars, pointerVars>>

\* parentNode.appendChild(video)
HostAppendVideo(v, where) ==
    /\ HostStep
    /\ parent[v] = "none"
    /\ parent' = [parent EXCEPT ![v] = where]
    /\ Queue(where = "body" \/ divInDoc,
             ChildList(IF where = "body" THEN BodyNode ELSE DivNode, <<VideoNode(v)>>, << >>))
    /\ lastEvent' = Event("hostAppendVideo", v, NaN, FALSE)
    /\ UNCHANGED <<divInDoc, src>>

\* document.body.append('text', video): one record with two added nodes
HostAppendTextAndVideo(v) ==
    /\ HostStep
    /\ parent[v] = "none"
    /\ parent' = [parent EXCEPT ![v] = "body"]
    /\ Queue(TRUE, ChildList(BodyNode, <<TextNode, VideoNode(v)>>, << >>))
    /\ lastEvent' = Event("hostAppendTextAndVideo", v, NaN, FALSE)
    /\ UNCHANGED <<divInDoc, src>>

\* video.remove()
HostRemoveVideo(v) ==
    /\ HostStep
    /\ parent[v] # "none"
    /\ parent' = [parent EXCEPT ![v] = "none"]
    /\ Queue(InDoc(v),
             ChildList(IF parent[v] = "body" THEN BodyNode ELSE DivNode, << >>, <<VideoNode(v)>>))
    /\ lastEvent' = Event("hostRemoveVideo", v, NaN, FALSE)
    /\ UNCHANGED <<divInDoc, src>>

\* document.body.appendChild(div), the container with the videos it holds
HostAppendDiv ==
    /\ HostStep
    /\ ~divInDoc
    /\ divInDoc' = TRUE
    /\ Queue(TRUE, ChildList(BodyNode, <<DivNode>>, << >>))
    /\ lastEvent' = Event("hostAppendDiv", 0, NaN, FALSE)
    /\ UNCHANGED <<parent, src>>

\* div.remove()
HostRemoveDiv ==
    /\ HostStep
    /\ divInDoc
    /\ divInDoc' = FALSE
    /\ Queue(TRUE, ChildList(BodyNode, << >>, <<DivNode>>))
    /\ lastEvent' = Event("hostRemoveDiv", 0, NaN, FALSE)
    /\ UNCHANGED <<parent, src>>

\* video.src = s
HostSetSrc(v, s) ==
    /\ HostStep
    /\ s # src[v]
    /\ src' = [src EXCEPT ![v] = s]
    /\ Queue(InDoc(v), SrcChange(VideoNode(v)))
    /\ lastEvent' = Event("hostSetSrc", v, NaN, FALSE)
    /\ UNCHANGED <<divInDoc, parent>>

\* a src attribute set on an element that is no video
HostSetDivSrc ==
    /\ HostStep
    /\ divInDoc
    /\ Queue(TRUE, SrcChange(DivNode))
    /\ lastEvent' = Event("hostSetDivSrc", 0, NaN, FALSE)
    /\ UNCHANGED <<divInDoc, parent, src>>

\* ------------------------------------------------------- load and observer
\* the window load handler: the first scan; the observer is installed
Load ==
    /\ ~loaded
    /\ loaded' = TRUE
    /\ SetEngineState(initVideoSpeedControl(EngineState))
    /\ lastEvent' = Event("load", 0, NaN, TRUE)
    /\ UNCHANGED <<hostname, divInDoc, parent, src, pending, hostOps, paused, pointerVars, threw>>

\* the observer callback on the queued records
ObserverCallback ==
    /\ loaded
    /\ pending # << >>
    /\ LET r == observerCallback(EngineState, pending)
       IN /\ SetEngineState(r.st)
          /\ lastEvent' = Event("observer", 0, NaN, r.videoAdded)
    /\ pending' = << >>
    /\ UNCHANGED <<hostname, loaded, divInDoc, parent, src, hostOps, paused, pointerVars, threw>>


\* ------------------------------------------------------------ the pointer
UserStep ==
    /\ userOps < MaxUserOps
    /\ userOps' = userOps + 1
    /\ quiet' = 0

\* the document mousemove listener
MouseMove(x, y) ==
    /\ UserStep
    /\ mouseX' = x
    /\ mouseY' = y
    /\ activeVideos' = updateControllerVisibility(activeVideos, x, y)
    /\ hovered' = {v \in DOMAIN activeVideos : isMouseOver(v, x, y)}
    /\ sinceMove' = [v \in Videos |->
                       IF has(activeVideos, v) /\ isMouseOver(v, x, y) THEN 0 ELSE sinceMove[v]]
    /\ lastEvent' = PointerEvent("mousemove", 0)
    /\ UNCHANGED <<domVars, rateVars, enhanced, panels, attached, intervals, flashTimers, threw>>

\* the controller's mouseenter listener; the panel takes pointer events only
\* while it carries the visible class (pointer-events: auto)
ControllerMouseEnter(v) ==
    /\ UserStep
    /\ panels[v] > 0
    /\ has(activeVideos, v) => (activeVideos[v].visible /\ ~activeVideos[v].isSticky)
    /\ IF has(activeVideos, v)
       THEN activeVideos' = [activeVideos EXCEPT ![v].isSticky = TRUE] /\ threw' = threw
       ELSE activeVideos' = activeVideos /\ threw' = TRUE
    /\ hovered' = {}
    /\ sinceMove' = sinceMove
    /\ lastEvent' = PointerEvent("mouseenter", v)
    /\ UNCHANGED <<domVars, rateVars, mouseX, mouseY, enhanced, panels, attached, intervals,
                   flashTimers>>

\* the mouseleave listener without the call of updateControllerVisibility
ControllerMouseLeave_NoReevaluate(v) ==
    /\ UserStep
    /\ panels[v] > 0
    /\ has(activeVideos, v) => activeVideos[v].isSticky
    /\ IF has(activeVideos, v)
       THEN /\ activeVideos' = [activeVideos EXCEPT ![v].isSticky = FALSE]
            /\ threw' = threw
       ELSE activeVideos' = activeVideos /\ threw' = TRUE
    /\ hovered' = {}
    /\ sinceMove' = sinceMove
    /\ lastEvent' = PointerEvent("mouseleave", v)
    /\ UNCHANGED <<domVars, rateVars, mouseX, mouseY, enhanced, panels, attached, intervals,
                   flashTimers>>

\* the controller's mouseleave listener
ControllerMouseLeave(v) ==
    /\ UserStep
    /\ panels[v] > 0
    /\ has(activeVideos, v) => activeVideos[v].isSticky
    /\ IF has(activeVideos, v)
       THEN /\ activeVideos' = updateControllerVisibility(
                                 [activeVideos EXCEPT ![v].isSticky = FALSE], mouseX, mouseY)
            /\ threw' = threw
       ELSE activeVideos' = activeVideos /\ threw' = TRUE
    /\ hovered' = {}
    /\ sinceMove' = sinceMove
    /\ lastEvent' = PointerEvent("mouseleave", v)
    /\ UNCHANGED <<domVars, rateVars, mouseX, mouseY, enhanced, panels, attached, intervals,
                   flashTimers>>

\* --------------------------------------------------------------- the timers
RemoveAt(seq, i) == SubSeq(seq, 1, i - 1) \o SubSeq(seq, i + 1, Len(seq))

\* the hide timeout without the test of data.isSticky
HideTimerFires_StickyIgnored(v, i) ==
    /\ has(activeVideos, v)
    /\ i \in 1..Len(activeVideos[v].hideTimers)
    /\ activeVideos[v].hideTimers[i] = 0
    /\ activeVideos' = [activeVideos EXCEPT
          ![v].visible = FALSE,
          ![v].hideTimers = RemoveAt(@, i),
          ![v].hideTimer = IF @ = i THEN 0 ELSE IF @ > i THEN @ - 1 ELSE @]
    /\ lastEvent' = Event("hideTimer", v, NaN,
                          activeVideos[v].visible /\ ~activeVideos'[v].visible)
    /\ UNCHANGED <<domVars, rateVars, pointerVars, enhanced, panels, attached, intervals,
                   flashTimers, threw>>

\* the timeout set by updateControllerVisibility fires
HideTimerFires(v, i) ==
    /\ has(activeVideos, v)
    /\ i \in 1..Len(activeVideos[v].hideTimers)
    /\ activeVideos[v].hideTimers[i] = 0
    /\ activeVideos' = [activeVideos EXCEPT
          ![v].visible = IF activeVideos[v].isSticky THEN @ ELSE FALSE,
          ![v].hideTimers = RemoveAt(@, i),
          ![v].hideTimer = IF @ = i THEN 0 ELSE IF @ > i THEN @ - 1 ELSE @]
    /\ lastEvent' = Event("hideTimer", v, NaN,
                          activeVideos[v].visible /\ ~activeVideos'[v].visible)
    /\ UNCHANGED <<domVars, rateVars, pointerVars, enhanced, panels, attached, intervals,
                   flashTimers, threw>>

\* the flash timeout with a look at the pointer: a panel whose video the
\* pointer is over is left visible
FlashTimerFires_HoverSpared(t) ==
    /\ t \in flashTimers
    /\ t.left = 0
    /\ flashTimers' = flashTimers \ {t}
    /\ IF ~has(activeVideos, t.video)
       THEN activeVideos' = activeVideos /\ threw' = TRUE
       ELSE /\ threw' = threw
            /\ activeVideos' =
                 IF /\ ~activeVideos[t.video].isSticky
                    /\ t.gen = attached[t.video]
                    /\ ~isMouseOver(t.video, mouseX, mouseY)
                 THEN [activeVideos EXCEPT ![t.video].visible = FALSE]
                 ELSE activeVideos
    /\ lastEvent' = Event("flashTimer", t.video, NaN, FALSE)
    /\ UNCHANGED <<domVars, rateVars, pointerVars, enhanced, panels, attached, intervals>>

\* the timeout of the creation flash fires; its controller is the one built
\* by attach number t.gen of the video
FlashTimerFires(t) ==
    /\ t \in flashTimers
    /\ t.left = 0
    /\ flashTimers' = flashTimers \ {t}
    /\ IF ~has(activeVideos, t.video)
       THEN activeVideos' = activeVideos /\ threw' = TRUE
       ELSE /\ threw' = threw
            /\ activeVideos' =
                 IF ~activeVideos[t.video].isSticky /\ t.gen = attached[t.video]
                 THEN [activeVideos EXCEPT ![t.video].visible = FALSE]
                 ELSE activeVideos
    /\ lastEvent' = Event("flashTimer", t.video, NaN, FALSE)
    /\ UNCHANGED <<domVars, rateVars, pointerVars, enhanced, panels, attached, intervals>>

\* the setInterval callback without the write: it only looks
IntervalFires_NoRestore(v, i) ==
    /\ i \in 1..Len(intervals[v])
    /\ intervals[v][i] = 0
    /\ intervals' = [intervals EXCEPT ![v][i] = CheckInterval]
    /\ lastEvent' = Event("interval", v, NaN, FALSE)
    /\ UNCHANGED <<domVars, pointerVars, enhanced, activeVideos, panels, attached, flashTimers,
                   threw, rateVars>>

\* the setInterval callback without the test of video.paused
IntervalFires_PausedToo(v, i) ==
    /\ i \in 1..Len(intervals[v])
    /\ intervals[v][i] = 0
    /\ intervals' = [intervals EXCEPT ![v][i] = CheckInterval]
    /\ LET savedRateStr == preferredRate[v]
           savedRate == parseFloat(savedRateStr)
       IN playbackRate' =
            IF ~Truthy(savedRateStr) THEN playbackRate
            ELSE IF StrictEquals(playbackRate[v], savedRate) THEN playbackRate
            ELSE [playbackRate EXCEPT ![v] = savedRate]
    /\ lastEvent' = Event("interval", v, NaN, playbackRate' # playbackRate)
    /\ UNCHANGED <<domVars, pointerVars, enhanced, activeVideos, panels, attached, flashTimers,
                   threw, paused, preferredRate>>

\* one setInterval callback of the video runs
IntervalFires(v, i) ==
    /\ i \in 1..Len(intervals[v])
    /\ intervals[v][i] = 0
    /\ intervals' = [intervals EXCEPT ![v][i] = CheckInterval]
    /\ LET savedRateStr == preferredRate[v]
           savedRate == parseFloat(savedRateStr)
       IN playbackRate' =
            IF ~Truthy(savedRateStr) \/ paused[v] THEN playbackRate
            ELSE IF StrictEquals(playbackRate[v], savedRate) THEN playbackRate
            ELSE [playbackRate EXCEPT ![v] = savedRate]
    /\ lastEvent' = Event("interval", v, NaN, playbackRate' # playbackRate)
    /\ UNCHANGED <<domVars, pointerVars, enhanced, activeVideos, panels, attached, flashTimers,
                   threw, paused, preferredRate>>

\* ms left of every pending timer
PendingTimes ==
    UNION {{activeVideos[v].hideTimers[i] : i \in 1..Len(activeVideos[v].hideTimers)} :
             v \in DOMAIN activeVideos}
    \cup {t.left : t \in flashTimers}
    \cup UNION {{intervals[v][i] : i \in 1..Len(intervals[v])} : v \in Videos}

Min(S) == CHOOSE m \in S : \A n \in S : m <= n

\* time passes: up to the next timer that is due, at most TickMs
Advance ==
    LET d == Min(PendingTimes \cup {TickMs})
    IN  /\ loaded
        /\ d > 0
        /\ activeVideos' = [v \in DOMAIN activeVideos |->
              [activeVideos[v] EXCEPT
                 !.hideTimers = [i \in 1..Len(@) |-> @[i] - d]]]
        /\ flashTimers' = {[t EXCEPT !.left = @ - d] : t \in flashTimers}
        /\ intervals' = [v \in Videos |-> [i \in 1..Len(intervals[v]) |-> intervals[v][i] - d]]
        /\ quiet' = IF quiet + d > HideDelay THEN HideDelay ELSE quiet + d
        /\ sinceMove' = [v \in Videos |->
                           IF sinceMove[v] + d > HideDelay THEN HideDelay ELSE sinceMove[v] + d]
        /\ lastEvent' = Event("advance", 0, NaN, FALSE)
        /\ UNCHANGED <<domVars, rateVars, mouseX, mouseY, userOps, hovered, enhanced, panels,
                       attached, threw>>

\* ------------------------------------------------------ the panel's controls
\* texts the user may leave in the numeric input
TypedTexts ==
    {<<"0">>, <<"-", "1">>, << >>, <<"a", "b", "c">>, <<"0", ".", "0", "5">>, <<"2", "0">>,
     <<"1", ".", "5">>, <<"3", ".", "7">>}

\* the user's events on the controls of a registered video's panel
ControlStep(v) ==
    /\ userOps < MaxUserOps
    /\ userOps' = userOps + 1
    /\ has(activeVideos, v)
    /\ panels[v] > 0
    /\ UNCHANGED <<domVars, mouseX, mouseY, quiet, hovered, sinceMove, paused, threw>>

\* the speedSelector change listener, after the user picked option i
SpeedSelectorChange(v, i) ==
    /\ ControlStep(v)
    /\ i # activeVideos[v].selectedIndex
    /\ LET st == [EngineState EXCEPT !.activeVideos[v].selectedIndex = i]
       IN SetEngineState(IF optionValue(i) = <<"custom">> THEN st
                         ELSE applyPlaybackRate(st, v, parseFloat(optionValue(i))))
    /\ lastEvent' = Event("change", v, IF i = CustomIndex THEN NaN ELSE Num(speeds[i]),
                          i = CustomIndex)

\* the user edits the numeric input; no listener of the script runs
CustomSpeedInputType(v, text) ==
    /\ ControlStep(v)
    /\ text # activeVideos[v].customValue
    /\ SetEngineState([EngineState EXCEPT !.activeVideos[v].customValue = text])
    /\ lastEvent' = Event("type", v, NaN, FALSE)

\* the body shared by the keyup (Enter) and click listeners
applyCustomSpeed(st, v) ==
    LET rate == parseFloat(st.activeVideos[v].customValue)
    IN IF GreaterZero(rate) THEN applyPlaybackRate(st, v, rate) ELSE st

\* the keyup listener without the test of e.key
CustomSpeedInputKeyup_AnyKey(v, key) ==
    /\ ControlStep(v)
    /\ SetEngineState(applyCustomSpeed(EngineState, v))
    /\ lastEvent' = Event("keyup", v, parseFloat(activeVideos[v].customValue), key = "Enter")

\* the customSpeedInput keyup listener
CustomSpeedInputKeyup(v, key) ==
    /\ ControlStep(v)
    /\ SetEngineState(IF key # "Enter" THEN EngineState ELSE applyCustomSpeed(EngineState, v))
    /\ lastEvent' = Event("keyup", v, parseFloat(activeVideos[v].customValue), key = "Enter")

\* the applyButton click listener
ApplyButtonClick(v) ==
    /\ ControlStep(v)
    /\ SetEngineState(applyCustomSpeed(EngineState, v))
    /\ lastEvent' = Event("click", v, parseFloat(activeVideos[v].customValue), TRUE)

\* ------------------------------------------------------ the video's playback
\* rates the host page may set
HostRates == {Num(100), Num(150), Num(200), Num(0)}

RateStep ==
    /\ hostOps < MaxHostOps
    /\ hostOps' = hostOps + 1
    /\ UNCHANGED <<hostname, loaded, divInDoc, parent, src, pending, pointerVars, enhanced,
                   activeVideos, panels, attached, intervals, flashTimers, threw, preferredRate>>

\* the host page writes video.playbackRate
HostSetPlaybackRate(v, r) ==
    /\ RateStep
    /\ r # playbackRate[v]
    /\ playbackRate' = [playbackRate EXCEPT ![v] = r]
    /\ paused' = paused
    /\ lastEvent' = Event("hostSetRate", v, r, FALSE)

\* the video starts to play: the play listeners of the video run (one per
\* attach, all the same; the first one settles the rate)
VideoPlay(v) ==
    /\ RateStep
    /\ paused[v]
    /\ paused' = [paused EXCEPT ![v] = FALSE]
    /\ LET savedRateStr == preferredRate[v]
           savedRate == parseFloat(savedRateStr)
       IN playbackRate' =
            IF attached[v] = 0 \/ ~Truthy(savedRateStr) THEN playbackRate
            ELSE IF StrictEquals(playbackRate[v], savedRate) THEN playbackRate
            ELSE [playbackRate EXCEPT ![v] = savedRate]
    /\ lastEvent' = Event("play", v, NaN, playbackRate' # playbackRate)

\* the video pauses
VideoPause(v) ==
    /\ RateStep
    /\ ~paused[v]
    /\ paused' = [paused EXCEPT ![v] = TRUE]
    /\ playbackRate' = playbackRate
    /\ lastEvent' = Event("pause", v, NaN, FALSE)

\* ------------------------------------------------------------ direct calls
\* the rates a caller may pass: presets, a custom rate, 0, a negative rate,
\* NaN and the infinities
RateInputs == {Num(150), Num(200), Num(370), Num(0), Num(0 - 100), NaN, PosInf, NegInf}

\* applyPlaybackRate(video, rate) called on any video with any rate
DirectApply(v, r) ==
    /\ loaded
    /\ SetEngineState(applyPlaybackRate(EngineState, v, r))
    /\ lastEvent' = Event("apply", v, r, FALSE)
    /\ UNCHANGED <<domVars, pointerVars, paused, threw>>

\* ------------------------------------------------------------ the whole page
HostDom ==
    \/ \E v \in Videos, where \in {"body", "div"} : HostAppendVideo(v, where)
    \/ \E v \in Videos : HostAppendTextAndVideo(v)
    \/ \E v \in Videos : HostRemoveVideo(v)
    \/ HostAppendDiv
    \/ HostRemoveDiv
    \/ \E v \in Videos, s \in {BlobSrc, HttpSrc} : HostSetSrc(v, s)
    \/ HostSetDivSrc

Pointer ==
    \/ \E p \in Points : MouseMove(p[1], p[2])
    \/ \E v \in Videos : ControllerMouseEnter(v)
    \/ \E v \in Videos : ControllerMouseLeave(v)

Timers ==
    \/ \E v \in Videos, i \in 1..(MaxUserOps + 1) : HideTimerFires(v, i)
    \/ \E t \in flashTimers : FlashTimerFires(t)
    \/ \E v \in Videos, i \in 1..(MaxHostOps + 1) : IntervalFires(v, i)
    \/ Advance

Controls ==
    \/ \E v \in Videos, i \in 1..CustomIndex : SpeedSelectorChange(v, i)
    \/ \E v \in Videos, text \in TypedTexts : CustomSpeedInputType(v, text)
    \/ \E v \in Videos, key \in {"Enter", "Tab"} : CustomSpeedInputKeyup(v, key)
    \/ \E v \in Videos : ApplyButtonClick(v)

Playback ==
    \/ \E v \in Videos, r \in HostRates : HostSetPlaybackRate(v, r)
    \/ \E v \in Videos : VideoPlay(v)
    \/ \E v \in Videos : VideoPause(v)

Next ==
    \/ HostDom
    \/ Load
    \/ ObserverCallback
    \/ Pointer
    \/ Controls
    \/ Playback
    \/ Timers

\* the whole page: host DOM, observer, pointer, controls, playback and timers
Spec == Init /\ [][Next]_vars

\* the reconciler: the host page's DOM mutations, the load scan and the observer
NextDom == HostDom \/ Load \/ ObserverCallback

SpecDom == Init /\ [][NextDom]_vars

\* the visibility manager: every video is on the page when it loads; then
\* the pointer and the timers
InitVis ==
    /\ Init
    /\ hostname = <<"example", "com">>
    /\ parent = [v \in Videos |-> "body"]
    /\ src = [v \in Videos |-> BlobSrc]

NextVis == Load \/ Pointer \/ Timers

SpecVis == InitVis /\ [][NextVis]_vars

\* the panel's hover handlers: the first video is on the page when it loads;
\* the document mousemove listener, installed when the script starts, has
\* left the pointer coordinates anywhere before the load
InitHover ==
    /\ hostname = <<"example", "com">>
    /\ parent = [v \in Videos |-> IF v = 1 THEN "body" ELSE "none"]
    /\ src = [v \in Videos |-> BlobSrc]
    /\ playbackRate = [v \in Videos |-> Num(100)]
    /\ \E p \in Points : mouseX = p[1] /\ mouseY = p[2]
    /\ InitScript

NextHover == Load \/ Pointer \/ Timers

SpecHover == InitHover /\ [][NextHover]_vars

\* the same with the event loop running: a timer that is due fires, and time
\* passes when none is due
SpecHoverLive == SpecHover /\ WF_vars(Timers)

\* applyPlaybackRate as a function: after the load scan, called on
\* registered and unregistered videos with every rate of RateInputs
InitApply ==
    /\ Init
    /\ hostname = <<"example", "com">>
    /\ src = [v \in Videos |-> BlobSrc]

NextApply == Load \/ \E v \in Videos, r \in RateInputs : DirectApply(v, r)

SpecApply == InitApply /\ [][NextApply]_vars

\* the site rules on the hostnames a page may have: with and without
\* subdomain, one label, a trailing dot (an empty last label), another
\* public suffix; the host page changes the src of its videos
SiteHostnames ==
    {<<"www", "primevideo", "com">>, <<"primevideo", "com">>, <<"example", "com">>,
     <<"localhost">>, <<"primevideo", "com", "">>, <<"www", "primevideo", "co", "uk">>,
     <<"primevideo">>}

InitSite ==
    /\ hostname \in SiteHostnames
    /\ InitPage

NextSite ==
    \/ Load
    \/ \E v \in Videos, s \in {BlobSrc, HttpSrc} : HostSetSrc(v, s)
    \/ ObserverCallback

SpecSite == InitSite /\ [][NextSite]_vars

\* rate enforcement: every video is on the page when it loads, with the live
\* rate the page gave it; then the page plays, pauses and sets rates while
\* the timers run
InitPlay ==
    /\ hostname = <<"example", "com">>
    /\ parent = [v \in Videos |-> IF v = 1 THEN "body" ELSE "none"]
    /\ src = [v \in Videos |-> BlobSrc]
    /\ playbackRate \in [Videos -> HostRates]
    /\ InitEngine

NextPlay ==
    \/ Load
    \/ Playback
    \/ \E t \in flashTimers : FlashTimerFires(t)
    \/ \E v \in Videos, i \in 1..(MaxHostOps + 1) : IntervalFires(v, i)
    \/ Advance

SpecPlay == InitPlay /\ [][NextPlay]_vars

\* the panel's controls: every video is on the page when it loads, the first
\* with the live rate the page gave it; then the user works the controls
InitControls ==
    /\ hostname = <<"example", "com">>
    /\ parent = [v \in Videos |-> "body"]
    /\ src = [v \in Videos |-> BlobSrc]
    /\ playbackRate \in {f \in [Videos -> HostRates] : \A v \in Videos \ {1} : f[v] = Num(100)}
    /\ InitEngine

NextControls == Load \/ Controls

SpecControls == InitControls /\ [][NextControls]_vars

\* several videos side by side: every video is on the page when it loads, each
\* with the live rate the page gave it; the user picks presets, types a rate
\* and applies it, and moves the pointer, while the page plays the videos and
\* sets rates and the timers run
PageVideos == {1, 2} \cap Videos
PickedOption == CHOOSE i \in 1..Len(speeds) : speeds[i] = 250
TypedRate == <<"3", ".", "7">>

InitSideBySide ==
    /\ hostname = <<"example", "com">>
    /\ parent = [v \in Videos |-> IF v \in PageVideos THEN "body" ELSE "none"]
    /\ src = [v \in Videos |-> BlobSrc]
    /\ playbackRate = [v \in Videos |-> IF v = 1 THEN Num(150) ELSE Num(200)]
    /\ InitEngine

NextSideBySide ==
    \/ Load
    \/ \E v \in Videos : SpeedSelectorChange(v, PickedOption)
    \/ CustomSpeedInputType(2, TypedRate)
    \/ \E v \in Videos : CustomSpeedInputKeyup(v, "Enter")
    \/ \E v \in Videos : ApplyButtonClick(v)
    \/ HostSetPlaybackRate(1, Num(100))
    \/ VideoPlay(1)
    \/ MouseMove(2, 1)
    \/ Timers

SpecSideBySide == InitSideBySide /\ [][NextSideBySide]_vars

\* teardown and rebuild on a page with a site rule: the first video is on the
\* page when it loads, with a blob src and the live rate the page gave it;
\* then the page changes the src, plays, pauses and sets rates while the
\* timers run
InitKeep ==
    /\ hostname = <<"www", "primevideo", "com">>
    /\ parent = [v \in Videos |-> IF v = 1 THEN "body" ELSE "none"]
    /\ src = [v \in Videos |-> BlobSrc]
    /\ playbackRate \in {f \in [Videos -> HostRates] : \A v \in Videos \ {1} : f[v] = Num(100)}
    /\ InitEngine

NextKeep ==
    \/ Load
    \/ \E v \in Videos, s \in {BlobSrc, HttpSrc} : HostSetSrc(v, s)
    \/ ObserverCallback
    \/ Playback
    \/ \E t \in flashTimers : FlashTimerFires(t)
    \/ \E v \in Videos, i \in 1..(MaxHostOps + 1) : IntervalFires(v, i)
    \/ Advance

SpecKeep == InitKeep /\ [][NextKeep]_vars

\* the attach on a page with a site rule: the videos are on the page at load
\* or are appended later, the first with the live rate the page gave it (the
\* default, a preset, a rate that is no preset, zero); src changes tear the
\* controller down and build it again
PreRates == {Num(100), Num(125), Num(200), Num(0)}

InitAttach ==
    /\ hostname = <<"www", "primevideo", "com">>
    /\ parent \in [Videos -> {"none", "body"}]
    /\ src = [v \in Videos |-> BlobSrc]
    /\ playbackRate \in {f \in [Videos -> PreRates] : \A v \in Videos \ {1} : f[v] = Num(100)}
    /\ InitEngine

NextAttach ==
    \/ Load
    \/ \E v \in Videos : HostAppendVideo(v, "body")
    \/ \E v \in Videos, s \in {BlobSrc, HttpSrc} : HostSetSrc(v, s)
    \/ ObserverCallback

SpecAttach == InitAttach /\ [][NextAttach]_vars


\* =================================================================== claims
EventVideo == lastEvent.video

\* C1: for every video, registered or not, and every rate r that is a number
\* greater than 0, applyPlaybackRate(video, r) leaves the live rate equal to r
\* and the stored preferred rate (read back as a number) equal to r.
C1_ApplySetsLiveAndPreferred ==
    (lastEvent.op = "apply" /\ GreaterZero(lastEvent.rate)) =>
        /\ StrictEquals(playbackRate[EventVideo], lastEvent.rate)
        /\ preferredRate[EventVideo] # Undefined
        /\ StrictEquals(parseFloat(preferredRate[EventVideo]), lastEvent.rate)

\* an accepted custom rate was applied to a video without a registration
C1_Witness ==
    /\ lastEvent.op = "apply"
    /\ lastEvent.rate = Num(370)
    /\ ~has(activeVideos, EventVideo)
    /\ playbackRate[EventVideo] = Num(370)

\* C2: for every rate r that is <= 0 or NaN, applyPlaybackRate(video, r)
\* changes nothing: live rate, preferred rate, dropdown selection and numeric
\* input value are the same after the call as before it.
C2_RejectedRateChangesNothing ==
    [][(lastEvent'.op = "apply" /\ (isNaN(lastEvent'.rate) \/ LessEqZero(lastEvent'.rate))) =>
          /\ playbackRate' = playbackRate
          /\ preferredRate' = preferredRate
          /\ DOMAIN activeVideos' = DOMAIN activeVideos
          /\ \A v \in DOMAIN activeVideos :
                /\ activeVideos'[v].selectedIndex = activeVideos[v].selectedIndex
                /\ activeVideos'[v].customValue = activeVideos[v].customValue]_vars

\* a rejected rate was passed for a registered video that shows an earlier rate
C2_Witness ==
    /\ lastEvent.op = "apply"
    /\ (isNaN(lastEvent.rate) \/ LessEqZero(lastEvent.rate))
    /\ has(activeVideos, EventVideo)
    /\ preferredRate[EventVideo] = toString(Num(150))
    /\ activeVideos[EventVideo].selectedIndex # DefaultIndex

\* C3: applyPlaybackRate(video, rate) is a no-op for every rate that is not a
\* finite number, positive infinity included: live rate and preferred rate
\* are unchanged by the call.
C3_NonFiniteRateChangesNothing ==
    [][(lastEvent'.op = "apply" /\ lastEvent'.rate.kind # "num") =>
          /\ playbackRate' = playbackRate
          /\ preferredRate' = preferredRate]_vars

\* C4: attaching is idempotent: a scan run in any reachable state creates no
\* panel, registration, listener or timer for a video that carries the
\* enhanced marker, and no video ever has more than one controller panel in
\* the document.
C4_AttachIdempotent ==
    /\ \A v \in Videos : panels[v] <= 1
    /\ LET st == initVideoSpeedControl(EngineState)
       IN \A v \in Videos : enhanced[v] =>
            /\ st.panels[v] = panels[v]
            /\ st.attached[v] = attached[v]
            /\ st.intervals[v] = intervals[v]
            /\ has(st.activeVideos, v) = has(activeVideos, v)
            /\ has(activeVideos, v) => st.activeVideos[v] = activeVideos[v]
            /\ {t \in st.flashTimers : t.video = v} = {t \in flashTimers : t.video = v}

\* a rescan ran after a video's controller was torn down and built again,
\* and the video has one panel
C4_Witness ==
    /\ lastEvent.op = "observer"
    /\ lastEvent.flag
    /\ \E v \in Videos : attached[v] = 2 /\ panels[v] = 1 /\ has(activeVideos, v)

\* C5: after a pointer-move inside a registered video's rectangle the panel
\* is visible, and it stays visible for at least 2 seconds while no further
\* pointer event occurs, whatever other timers are pending.
C5_HoverKeepsVisibleTwoSeconds ==
    \A v \in hovered :
        (has(activeVideos, v) /\ quiet < HideDelay) => activeVideos[v].visible

\* C6: a pointer-move outside the rectangle of a registered video whose panel
\* is visible and whose registration is not sticky hides the panel within
\* the handler.
C6_LeaveHidesAtOnce ==
    lastEvent.op = "mousemove" =>
        \A v \in lastEvent.shown :
            (~activeVideos[v].isSticky /\ ~isMouseOver(v, mouseX, mouseY)) =>
                ~activeVideos[v].visible

\* a pointer-move outside a video's rectangle ran while its panel was visible
\* and not sticky
C6_Witness ==
    /\ lastEvent.op = "mousemove"
    /\ \E v \in lastEvent.shown :
          /\ ~activeVideos[v].isSticky
          /\ ~isMouseOver(v, mouseX, mouseY)
          /\ ~activeVideos[v].visible

\* C7: after the load scan and after every handled mutation batch, every
\* video in the document body carries the enhanced marker, and on a page
\* without a site rule every such video has a registration with a panel.
C7_EveryVideoPickedUp ==
    lastEvent.op \in {"load", "observer"} =>
        \A v \in Videos : InDoc(v) =>
            /\ enhanced[v]
            /\ currentSite = Null => (has(activeVideos, v) /\ panels[v] >= 1)

\* the batch that added the container was handled, and a video inside the
\* container got its controller from the rescan
C7_Witness ==
    /\ lastEvent.op = "observer"
    /\ lastEvent.flag
    /\ currentSite = Null
    /\ \E v \in Videos :
          parent[v] = "div" /\ divInDoc /\ has(activeVideos, v) /\ panels[v] = 1

\* the records of the batch that remove video v from the document
RemovesVideo(record, v) ==
    \E i \in 1..Len(record.removedNodes) :
        \/ record.removedNodes[i] = VideoNode(v)
        \/ record.removedNodes[i] = DivNode /\ parent[v] = "div"

\* C8: after a mutation batch that removes a registered video from the
\* document has been handled, the registration map holds no entry for the
\* video and its panel is no longer in the document.
C8_RemovedVideoLosesRegistration ==
    [][\A v \in Videos :
          (/\ lastEvent'.op = "observer"
           /\ \E i \in 1..Len(pending) : RemovesVideo(pending[i], v)
           /\ ~InDoc(v)
           /\ has(activeVideos, v))
          => (~has(activeVideos', v) /\ panels'[v] = 0)]_vars

\* C9: on a page with a site rule, a batch that holds a src change on a
\* registered video whose src now fails the rule leaves the video without
\* registration and without panel, whatever else the batch holds.
C9_DisqualifiedVideoLosesController ==
    [][\A v \in Videos :
          (/\ lastEvent'.op = "observer"
           /\ currentSite # Null
           /\ \E i \in 1..Len(pending) : pending[i] = SrcChange(VideoNode(v))
           /\ has(activeVideos, v)
           /\ ~shouldAddController(src[v]))
          => (~has(activeVideos', v) /\ panels'[v] = 0)]_vars

\* C10: on a page with a site rule, a batch that holds a src change on an
\* enhanced video without registration whose src now satisfies the rule
\* leaves the video (still in the document) with a registration, whatever
\* else the batch holds.
C10_QualifiedVideoGetsController ==
    [][\A v \in Videos :
          (/\ lastEvent'.op = "observer"
           /\ currentSite # Null
           /\ \E i \in 1..Len(pending) : pending[i] = SrcChange(VideoNode(v))
           /\ InDoc(v)
           /\ enhanced[v]
           /\ ~has(activeVideos, v)
           /\ shouldAddController(src[v]))
          => has(activeVideos', v)]_vars

\* C11: on a page whose base domain has a site rule, a scan (the load scan or
\* the rescan of the observer callback) leaves every video of the document
\* that did not carry the enhanced marker with the marker set, and with a
\* new registration and one more panel exactly when the rule's predicate
\* accepts the video's src; a rejected video gets neither.
C11_RuleDecidesAttach ==
    [][(lastEvent'.op \in {"load", "observer"} /\ lastEvent'.flag /\ currentSite # Null) =>
          \A v \in Videos : (InDoc(v) /\ ~enhanced[v]) =>
              /\ enhanced'[v]
              /\ has(activeVideos', v) = primevideoShouldAddController(src[v])
              /\ panels'[v] = panels[v] + (IF primevideoShouldAddController(src[v]) THEN 1 ELSE 0)
              /\ attached'[v] = attached[v] + (IF primevideoShouldAddController(src[v]) THEN 1 ELSE 0)
       ]_vars

\* a scan on www.primevideo.com has marked a video with an https src without
\* attaching to it, and has attached to a video with a blob src
C11_Witness ==
    /\ lastEvent.op \in {"load", "observer"}
    /\ lastEvent.flag
    /\ hostname = <<"www", "primevideo", "com">>
    /\ \E v, w \in Videos :
          /\ InDoc(v) /\ src[v] = HttpSrc /\ enhanced[v]
          /\ ~has(activeVideos, v) /\ attached[v] = 0 /\ panels[v] = 0
          /\ InDoc(w) /\ src[w] = BlobSrc /\ enhanced[w]
          /\ has(activeVideos, w) /\ attached[w] = 1 /\ panels[w] = 1

\* the base domain as the claim words it: the last two dot-separated labels,
\* or the whole hostname when it has fewer than two labels
LastTwoLabels(h) == IF Len(h) < 2 THEN h ELSE <<h[Len(h) - 1], h[Len(h)]>>

\* C12: for every hostname and every video src, shouldAddController equals
\* the registered rule's predicate when the hostname's base domain (its last
\* two labels, or the whole hostname when it has fewer than two) has a rule,
\* and is true otherwise; www.primevideo.com and primevideo.com use the same
\* rule, example.com accepts every video.
C12_RuleResolution ==
    /\ \A s \in {BlobSrc, HttpSrc, NoSrc} :
          shouldAddController(s) =
             (IF LastTwoLabels(hostname) \in siteRuleDomains
              THEN primevideoShouldAddController(s) ELSE TRUE)
    /\ hostname \in {<<"www", "primevideo", "com">>, <<"primevideo", "com">>} =>
          currentSite = <<"primevideo", "com">>
    /\ hostname = <<"example", "com">> =>
          \A s \in {BlobSrc, HttpSrc, NoSrc} : shouldAddController(s)

\* the load scan on www.primevideo.com asked the rule about a video with an
\* https src and left it without controller
C12_Witness ==
    /\ lastEvent.op = "load"
    /\ hostname = <<"www", "primevideo", "com">>
    /\ \E v \in Videos :
          InDoc(v) /\ src[v] = HttpSrc /\ enhanced[v] /\ ~has(activeVideos, v)

\* C13: for a video with a preferred rate p that is playing, a live rate the
\* host page made different from p is p again no later than the next firing
\* of the periodic check, and that firing is at most 1000 ms away: every
\* firing for a playing video leaves the live rate equal to p, and a video
\* with a preferred rate always has a check pending that is due within
\* 1000 ms and that time cannot pass.
C13_RestoredWithinOneSecond ==
    /\ [](\A v \in Videos : Truthy(preferredRate[v]) =>
            /\ Len(intervals[v]) >= 1
            /\ \A i \in 1..Len(intervals[v]) : intervals[v][i] \in 0..CheckInterval)
    /\ [][\A v \in Videos :
            (/\ lastEvent'.op = "interval"
             /\ lastEvent'.video = v
             /\ Truthy(preferredRate[v])
             /\ ~paused[v])
            => StrictEquals(playbackRate'[v], parseFloat(preferredRate[v]))]_vars

\* the periodic check of a playing video with preferred rate 1.5 found
\* another live rate and wrote 1.5 back
C13_Witness ==
    /\ lastEvent.op = "interval"
    /\ lastEvent.flag
    /\ ~paused[EventVideo]
    /\ preferredRate[EventVideo] = toString(Num(150))
    /\ playbackRate[EventVideo] = Num(150)

\* C14: a change event selecting preset p on a registered video's dropdown
\* sets the video's live rate and preferred rate to p and the numeric input
\* value to the text of p, for every preset; a change event selecting the
\* Custom entry changes no rate and no other control.
C14_DropdownAppliesPreset ==
    [][\A v \in Videos : (lastEvent'.op = "change" /\ lastEvent'.video = v) =>
          IF lastEvent'.flag
          THEN /\ playbackRate' = playbackRate
               /\ preferredRate' = preferredRate
               /\ activeVideos'[v].selectedIndex = CustomIndex
               /\ activeVideos'[v].customValue = activeVideos[v].customValue
               /\ \A w \in DOMAIN activeVideos \ {v} : activeVideos'[w] = activeVideos[w]
          ELSE /\ \E k \in 1..Len(speeds) : lastEvent'.rate = Num(speeds[k])
               /\ playbackRate'[v] = lastEvent'.rate
               /\ StrictEquals(parseFloat(preferredRate'[v]), lastEvent'.rate)
               /\ activeVideos'[v].customValue = toString(lastEvent'.rate)
               /\ optionValue(activeVideos'[v].selectedIndex) = toString(lastEvent'.rate)
       ]_vars

\* the preset 2 was picked on the dropdown of a video whose rate was 1.5
C14_Witness ==
    /\ lastEvent.op = "change"
    /\ lastEvent.rate = Num(200)
    /\ playbackRate[EventVideo] = Num(200)
    /\ preferredRate[EventVideo] = <<"2">>
    /\ activeVideos[EventVideo].customValue = <<"2">>

\* C15: a rate request made through the numeric input, by Enter or by the
\* Apply button, whose text parses to NaN or to a value <= 0 changes no
\* state: live rate, preferred rate and dropdown selection are unchanged;
\* a keyup of any key other than Enter never applies a rate.
C15_InvalidInputIgnored ==
    [][/\ (/\ (lastEvent'.op = "click" \/ (lastEvent'.op = "keyup" /\ lastEvent'.flag))
            /\ (isNaN(lastEvent'.rate) \/ LessEqZero(lastEvent'.rate)))
           => /\ playbackRate' = playbackRate
              /\ preferredRate' = preferredRate
              /\ activeVideos' = activeVideos
       /\ (lastEvent'.op = "keyup" /\ ~lastEvent'.flag)
           => /\ playbackRate' = playbackRate
              /\ preferredRate' = preferredRate
              /\ activeVideos' = activeVideos
       ]_vars

\* Enter was pressed in the numeric input holding "0" on the panel of a
\* video whose live and preferred rate are 1.5
C15_Witness ==
    /\ lastEvent.op = "keyup"
    /\ lastEvent.flag
    /\ lastEvent.rate = Num(0)
    /\ activeVideos[EventVideo].customValue = <<"0">>
    /\ playbackRate[EventVideo] = Num(150)
    /\ preferredRate[EventVideo] = toString(Num(150))

\* C16: in every reachable state a video's stored preferred rate is absent
\* or a number greater than 0, whichever path wrote it: dropdown, numeric
\* input, Apply button, or the adoption of the pre-existing live rate at
\* attach (a pre-existing live rate of 0 is not adopted).
C16_PreferredRatePositive ==
    \A v \in Videos :
        \/ preferredRate[v] = Undefined
        \/ GreaterZero(parseFloat(preferredRate[v]))

\* a video that had the live rate 0 before the attach has a controller and
\* no preferred rate, and the Apply button has written a preferred rate
C16_Witness ==
    /\ lastEvent.op = "click"
    /\ GreaterZero(lastEvent.rate)
    /\ preferredRate[EventVideo] = toString(lastEvent.rate)
    /\ \E v \in Videos :
          has(activeVideos, v) /\ playbackRate[v] = Num(0) /\ preferredRate[v] = Undefined

\* C17: while a registration is sticky (the pointer entered the panel and has
\* not left it) no transition hides its panel: not the 2-second hide timer,
\* not a pointer-move outside the video's bounds, not the 1-second flash
\* timer, wherever the pointer is.
C17_StickyPanelStaysVisible ==
    [][\A v \in DOMAIN activeVideos :
          (/\ activeVideos[v].isSticky
           /\ activeVideos[v].visible
           /\ ~(lastEvent'.op = "mouseleave" /\ lastEvent'.video = v))
          => (has(activeVideos', v) /\ activeVideos'[v].isSticky /\ activeVideos'[v].visible)
       ]_vars

\* the 2-second hide timer of a sticky registration expired and the panel is
\* still visible
C17_Witness ==
    /\ lastEvent.op = "hideTimer"
    /\ activeVideos[EventVideo].isSticky
    /\ activeVideos[EventVideo].visible

\* C18: on a page with a site rule, a video's preferred rate survives
\* teardown and rebuild: when a controller is re-attached to a video whose
\* registration was discarded while it had the preferred rate p, the
\* preferred rate after the re-attachment is still p, whatever the host
\* page did to the live rate in between.
C18_PreferredRateSurvivesRebuild ==
    [][\A v \in Videos :
          (/\ lastEvent'.op = "observer"
           /\ currentSite # Null
           /\ attached[v] >= 1
           /\ ~has(activeVideos, v)
           /\ has(activeVideos', v)
           /\ Truthy(preferredRate[v]))
          => preferredRate'[v] = preferredRate[v]]_vars

\* C19: for a video with a preferred rate p, the live rate equals p when the
\* play listener returns; and while the video is paused the periodic check
\* never writes the live rate, so a rate the host page sets during a pause
\* stays until the next play event.
C19_PlayRestoresPauseKeeps ==
    [][\A v \in Videos :
          /\ (lastEvent'.op = "play" /\ lastEvent'.video = v /\ Truthy(preferredRate[v]))
                => StrictEquals(playbackRate'[v], parseFloat(preferredRate[v]))
          /\ (lastEvent'.op = "interval" /\ paused[v])
                => playbackRate'[v] = playbackRate[v]
          /\ (paused[v] /\ paused'[v] /\ lastEvent'.op # "hostSetRate")
                => playbackRate'[v] = playbackRate[v]
       ]_vars

\* a second or more after the load, the play listener of a video with
\* preferred rate 1.5 found the live rate the host page had set during the
\* pause and wrote 1.5 back
C19_Witness ==
    /\ lastEvent.op = "play"
    /\ lastEvent.flag
    /\ quiet >= CheckInterval
    /\ preferredRate[EventVideo] = toString(Num(150))
    /\ playbackRate[EventVideo] = Num(150)

\* C20: the 1000 ms rate-check timer installed at attach is never
\* uninstalled: a video has as many timers as controllers ever built for
\* it, each due within one period; after the registration was discarded
\* because the video became ineligible, a firing still forces the live rate
\* of the playing video back to its preferred rate; and every re-attachment
\* adds one timer and one play listener and removes none.
C20_RateTimerNeverUninstalled ==
    /\ [](\A v \in Videos :
            /\ Len(intervals[v]) = attached[v]
            /\ \A i \in 1..Len(intervals[v]) : intervals[v][i] \in 0..CheckInterval)
    /\ [][\A v \in Videos :
            /\ (/\ lastEvent'.op = "interval"
                 /\ lastEvent'.video = v
                 /\ ~has(activeVideos, v)
                 /\ Truthy(preferredRate[v])
                 /\ ~paused[v])
                => StrictEquals(playbackRate'[v], parseFloat(preferredRate[v]))
            /\ (attached[v] >= 1 /\ ~has(activeVideos, v) /\ has(activeVideos', v))
                => /\ attached'[v] = attached[v] + 1
                   /\ Len(intervals'[v]) = Len(intervals[v]) + 1
            /\ attached'[v] >= attached[v]
            /\ Len(intervals'[v]) >= Len(intervals[v])]_vars

\* on www.primevideo.com the rate check of a playing video whose
\* registration was discarded found another live rate and wrote the
\* preferred rate back
C20_Witness ==
    /\ lastEvent.op = "interval"
    /\ lastEvent.flag
    /\ currentSite # Null
    /\ attached[EventVideo] >= 1
    /\ ~has(activeVideos, EventVideo)
    /\ ~shouldAddController(src[EventVideo])
    /\ ~paused[EventVideo]
    /\ StrictEquals(playbackRate[EventVideo], parseFloat(preferredRate[EventVideo]))

\* C21: a newly attached panel is visible when the attach completes, its
\* flash timer is due 1 second later, and when that timer fires the panel
\* becomes hidden unless the registration is sticky at that moment, also
\* when the pointer is inside the video's bounds and a 2-second hide
\* countdown is still running.
C21_FlashThenHide ==
    /\ [](lastEvent.op = "load" =>
            \A v \in DOMAIN activeVideos :
                /\ activeVideos[v].visible
                /\ [video |-> v, gen |-> attached[v], left |-> FlashDelay] \in flashTimers)
    /\ [][\A v \in Videos :
            (lastEvent'.op = "flashTimer" /\ lastEvent'.video = v /\ has(activeVideos, v)) =>
                IF activeVideos[v].isSticky
                THEN activeVideos'[v].visible = activeVideos[v].visible
                ELSE ~activeVideos'[v].visible]_vars

\* the flash timer fired less than 2 seconds after a pointer-move inside the
\* video's bounds, with the hide countdown still pending, and the panel is
\* hidden
C21_Witness ==
    /\ lastEvent.op = "flashTimer"
    /\ EventVideo \in hovered
    /\ quiet < HideDelay
    /\ isMouseOver(EventVideo, mouseX, mouseY)
    /\ activeVideos[EventVideo].hideTimer # 0
    /\ ~activeVideos[EventVideo].isSticky
    /\ ~activeVideos[EventVideo].visible

\* the dropdown entry that reflects rate r: the preset equal to r, else Custom
PresetOrCustom(r) ==
    IF \E k \in 1..Len(speeds) : Num(speeds[k]) = r
    THEN CHOOSE k \in 1..Len(speeds) : Num(speeds[k]) = r
    ELSE CustomIndex

\* C22: when a controller is attached to a video whose live rate r differs
\* from 1 and is greater than 0, the attach records r as the preferred rate
\* and shows r in the new panel's dropdown (its preset, or Custom) and
\* numeric input; when the live rate is 1 the attach writes neither the
\* live rate nor the preferred rate and the panel shows preset 1 and the
\* text '1.0'.
C22_AttachAdoptsLiveRate ==
    [][\A v \in Videos :
          (lastEvent'.op \in {"load", "observer"} /\ ~has(activeVideos, v) /\ has(activeVideos', v))
          => IF playbackRate[v] = Num(100)
             THEN /\ playbackRate'[v] = playbackRate[v]
                  /\ preferredRate'[v] = preferredRate[v]
                  /\ activeVideos'[v].selectedIndex = PresetOrCustom(Num(100))
                  /\ activeVideos'[v].customValue = <<"1", ".", "0">>
             ELSE GreaterZero(playbackRate[v]) =>
                  /\ playbackRate'[v] = playbackRate[v]
                  /\ StrictEquals(parseFloat(preferredRate'[v]), playbackRate[v])
                  /\ activeVideos'[v].selectedIndex = PresetOrCustom(playbackRate[v])
                  /\ activeVideos'[v].customValue = toString(playbackRate[v])
       ]_vars

\* a scan attached a controller to a video with the live rate 1.25: the
\* preferred rate is '1.25', the dropdown shows Custom, the input '1.25'
C22_Witness ==
    /\ lastEvent.op \in {"load", "observer"}
    /\ \E v \in Videos :
          /\ has(activeVideos, v)
          /\ playbackRate[v] = Num(125)
          /\ preferredRate[v] = <<"1", ".", "2", "5">>
          /\ activeVideos[v].selectedIndex = CustomIndex
          /\ activeVideos[v].customValue = <<"1", ".", "2", "5">>

\* C23: after every successful applyPlaybackRate(video, r), r a finite rate
\* greater than 0, on a registered video the dropdown selects the preset equal to r, or Custom when r is no
\* preset, and the numeric input value is the text of r; when the video has
\* no registration the live rate and the preferred rate are still set and
\* no control is touched.
C23_PanelReflectsRate ==
    [][(lastEvent'.op = "apply" /\ lastEvent'.rate.kind = "num" /\ lastEvent'.rate.val > 0) =>
          LET v == lastEvent'.video
              r == lastEvent'.rate
          IN  IF has(activeVideos, v)
              THEN /\ activeVideos'[v].selectedIndex = PresetOrCustom(r)
                   /\ activeVideos'[v].customValue = toString(r)
                   /\ \A w \in DOMAIN activeVideos \ {v} : activeVideos'[w] = activeVideos[w]
              ELSE /\ playbackRate'[v] = r
                   /\ StrictEquals(parseFloat(preferredRate'[v]), r)
                   /\ activeVideos' = activeVideos
       ]_vars

\* the rate 3.7 was applied to a registered video whose dropdown showed a
\* preset: the dropdown shows Custom and the input '3.7'
C23_Witness ==
    /\ lastEvent.op = "apply"
    /\ lastEvent.rate = Num(370)
    /\ has(activeVideos, EventVideo)
    /\ activeVideos[EventVideo].selectedIndex = CustomIndex
    /\ activeVideos[EventVideo].customValue = <<"3", ".", "7">>

\* C24: every rate applied through the numeric input, by Enter or by the
\* Apply button, lies in the range [0.1, 16]: a value typed outside that
\* range never becomes a live rate or a preferred rate.
C24_InputRangeEnforced ==
    [][(/\ (lastEvent'.op = "click" \/ (lastEvent'.op = "keyup" /\ lastEvent'.flag))
        /\ (playbackRate' # playbackRate \/ preferredRate' # preferredRate))
       => /\ lastEvent'.rate.kind = "num"
          /\ lastEvent'.rate.val >= InputMin
          /\ lastEvent'.rate.val <= InputMax]_vars

\* C25: a pointer-enter on a panel sets its registration sticky; a
\* pointer-leave clears sticky and re-evaluates visibility in the same
\* handler against the last known pointer coordinates: outside the video's
\* bounds the visible panel is hidden when the handler returns, inside them
\* the panel stays visible and a fresh 2-second countdown starts.
C25_EnterSticksLeaveReevaluates ==
    [][\A v \in DOMAIN activeVideos :
          /\ (lastEvent'.op = "mouseenter" /\ lastEvent'.video = v)
                => activeVideos'[v].isSticky
          /\ (lastEvent'.op = "mouseleave" /\ lastEvent'.video = v /\ activeVideos[v].visible)
                => /\ ~activeVideos'[v].isSticky
                   /\ IF isMouseOver(v, mouseX, mouseY)
                      THEN /\ activeVideos'[v].visible
                           /\ activeVideos'[v].hideTimer # 0
                           /\ activeVideos'[v].hideTimers[activeVideos'[v].hideTimer] = HideDelay
                      ELSE ~activeVideos'[v].visible
       ]_vars

\* a pointer-leave ran with the last known coordinates inside the video's
\* bounds: the panel is visible, not sticky, and its countdown has 2 seconds
C25_Witness ==
    /\ lastEvent.op = "mouseleave"
    /\ has(activeVideos, EventVideo)
    /\ isMouseOver(EventVideo, mouseX, mouseY)
    /\ ~activeVideos[EventVideo].isSticky
    /\ activeVideos[EventVideo].visible
    /\ activeVideos[EventVideo].hideTimer # 0
    /\ activeVideos[EventVideo].hideTimers[activeVideos[EventVideo].hideTimer] = HideDelay

\* C26: each registration has at most one pending hide timer at any time:
\* every pointer-move inside the video's bounds cancels the pending hide
\* timer before starting a new one (the one pending timer then has its full
\* 2 seconds), so a hide-timer expiry hides the panel only when at least
\* 2 seconds have passed since the most recent in-bounds pointer-move for
\* that video.
C26_OnePendingHideTimer ==
    /\ [](\A v \in DOMAIN activeVideos : Len(activeVideos[v].hideTimers) <= 1)
    /\ [][\A v \in DOMAIN activeVideos :
            /\ (lastEvent'.op = "mousemove" /\ isMouseOver(v, mouseX', mouseY'))
                  => activeVideos'[v].hideTimers = <<HideDelay>>
            /\ (/\ lastEvent'.op = "hideTimer"
                 /\ lastEvent'.video = v
                 /\ activeVideos[v].visible
                 /\ ~activeVideos'[v].visible)
                  => sinceMove[v] >= HideDelay]_vars

\* the hide timer expired 2 seconds after the last pointer-move inside the
\* video's bounds and hid the panel; no hide timer is pending
C26_Witness ==
    /\ lastEvent.op = "hideTimer"
    /\ lastEvent.flag
    /\ sinceMove[EventVideo] = HideDelay
    /\ ~activeVideos[EventVideo].visible
    /\ activeVideos[EventVideo].hideTimers = << >>

\* C27: auto-hide is live: from any reachable state in which a panel is
\* visible and its registration is not sticky, if no further pointer event
\* occurs and pending timers fire, the panel eventually becomes hidden (a
\* later pointer event may make it sticky instead).
C27_AutoHideLive ==
    \A v \in Videos :
        (has(activeVideos, v) /\ activeVideos[v].visible /\ ~activeVideos[v].isSticky)
        ~> (has(activeVideos, v) /\ (~activeVideos[v].visible \/ activeVideos[v].isSticky))

\* the last pending hide timer expired and hid its panel: every panel is
\* hidden and no timer that hides one is pending
C27_Witness ==
    /\ lastEvent.op = "hideTimer"
    /\ lastEvent.flag
    /\ flashTimers = {}
    /\ DOMAIN activeVideos # {}
    /\ \A v \in DOMAIN activeVideos :
          ~activeVideos[v].visible /\ activeVideos[v].hideTimers = << >>

\* C28: no callback ever runs against a missing registration: whenever the
\* 1-second flash timeout fires, or a panel's mouseenter or mouseleave
\* listener runs, activeVideos has an entry for its video, so that none of
\* them ends in a TypeError; in particular when a src change discarded the
\* registration less than 1 second after the attach.
C28_CallbackFindsRegistration ==
    /\ threw = FALSE
    /\ lastEvent.op \in {"flashTimer", "mouseenter", "mouseleave"}
          => has(activeVideos, lastEvent.video)

\* C29: videos are independent: applying a rate to one video through the
\* dropdown, the Enter key, the Apply button or a direct call, and the play
\* listener or the periodic check of one video, leave the live rate, the
\* preferred rate, the dropdown and the numeric input of every other video
\* unchanged; and a mousemove changes only panel visibility and hide timers,
\* never a live rate, a preferred rate, an enhanced marker, the set of
\* registrations or a panel's controls.
C29_VideosIndependent ==
    [][/\ lastEvent'.op \in {"change", "keyup", "click", "apply", "play", "interval"}
          => \A w \in Videos \ {lastEvent'.video} :
                /\ playbackRate'[w] = playbackRate[w]
                /\ preferredRate'[w] = preferredRate[w]
                /\ has(activeVideos', w) = has(activeVideos, w)
                /\ has(activeVideos, w) =>
                      /\ activeVideos'[w].selectedIndex = activeVideos[w].selectedIndex
                      /\ activeVideos'[w].customValue = activeVideos[w].customValue
       /\ lastEvent'.op = "mousemove"
          => /\ playbackRate' = playbackRate
             /\ preferredRate' = preferredRate
             /\ enhanced' = enhanced
             /\ DOMAIN activeVideos' = DOMAIN activeVideos
             /\ \A w \in DOMAIN activeVideos :
                   /\ activeVideos'[w].selectedIndex = activeVideos[w].selectedIndex
                   /\ activeVideos'[w].customValue = activeVideos[w].customValue
                   /\ activeVideos'[w].isSticky = activeVideos[w].isSticky]_vars

\* the periodic check has just put one playing video back to its preferred
\* rate while another registered video holds a different preferred rate and
\* a different live rate
C29_Witness ==
    /\ lastEvent.op = "interval"
    /\ lastEvent.flag
    /\ \E w \in DOMAIN activeVideos \ {EventVideo} :
          /\ Truthy(preferredRate[w])
          /\ preferredRate[w] # preferredRate[EventVideo]
          /\ playbackRate[w] # playbackRate[EventVideo]
          /\ activeVideos[w].customValue # activeVideos[EventVideo].customValue

====
